---- MODULE Spec2Model ----
(***************************************************************************)
(* Model of obs-mini-dock (src/main.py).                                   *)
(*                                                                         *)
(* Two state machines that share no state:                                 *)
(*   - OBSWidget and the push-event callbacks of main(): the record /      *)
(*     replay indicators, driven by button handlers on the Qt thread and   *)
(*     by callbacks the obs event client invokes (SpecRecord);             *)
(*   - StatusWindow and toggle_fuzzy_window: the fuzzy window finder,      *)
(*     driven by Qt handlers and by the hotkey callback (SpecSearch).      *)
(*                                                                         *)
(* The capture server, the window system and the libraries are the         *)
(* environment: they are modelled by what the calls in main.py rely on.    *)
(***************************************************************************)
EXTENDS Integers, Sequences, FiniteSets, TLC

\* ------------------------------------------------------------------ bounds
\* Button clicks modelled per run of the record machine.
MaxRequests == 4

\* ------------------------------------------------------- record machine
VARIABLES
    phase,          \* "start" | "running" | "terminated" | "aborted"
    srvRec,         \* capture server: "OFF" | "RECORDING" | "PAUSED"
    srvRep,         \* capture server: replay buffer active
    srvFiles,       \* capture server: files written so far (names the next path)
    conn,           \* the request connection of obs_client is usable
    events,         \* push events emitted by the server, not yet handled
    record_button,  \* colour of OBSWidget.record_button
    replay_button,  \* colour of OBSWidget.replay_button
    toasts,         \* notifications emitted by show_toast, in order
    req             \* the last button handler that ran: what it saw and sent

recVars == <<phase, srvRec, srvRep, srvFiles, conn, events,
             record_button, replay_button, toasts, req>>

VARIABLES
    desktop,        \* window system: handles of the windows that exist now
    title_list,     \* StatusWindow.title_list: the snapshot, <<hwnd, title>>
    filtered_list,  \* StatusWindow.filtered_list
    fresh,          \* filtered_list was computed from the current title_list
    window_list,    \* rows of the QListWidget window_list
    currentRow,     \* window_list.currentRow(), -1 when none
    visible,        \* the overlay is shown
    text,           \* search_bar.text()
    timer,          \* debounce_timer: ms left, -1 when not running
    hkPc,           \* the hotkey callback: the statement it runs next
    sinceEdit,      \* ms since the last textChanged, -1 before the first
    passes,         \* handle_search runs since the last textChanged
    passQuery,      \* the stripped text the last handle_search filtered with
    sel             \* the last select_item: row used, what it raised, handle

searchVars == <<desktop, title_list, filtered_list, fresh, window_list,
                currentRow, visible, text, timer, hkPc, sinceEdit, passes,
                passQuery, sel>>

VARIABLES
    probe,          \* window system: one window EnumWindows visits
    enumerated,     \* get_window_list() has run over probe
    hwnd_list       \* get_window_list: the list it returned

probeVars == <<probe, enumerated, hwnd_list>>

vars == <<recVars, searchVars, probeVars>>

\* output_path: str|None -- None is path 0, files are numbered from 1.
NoPath == 0

\* OutputState (the states main.py compares against, and the others).
STARTING == "OBS_WEBSOCKET_OUTPUT_STARTING"
STARTED == "OBS_WEBSOCKET_OUTPUT_STARTED"
STOPPING == "OBS_WEBSOCKET_OUTPUT_STOPPING"
STOPPED == "OBS_WEBSOCKET_OUTPUT_STOPPED"
PAUSED == "OBS_WEBSOCKET_OUTPUT_PAUSED"
RESUMED == "OBS_WEBSOCKET_OUTPUT_RESUMED"

\* RecordStateData, ReplayStatusData (as a push event), ReplayBufferSavedData.
RecordStateData(active, path, state) ==
    [type |-> "RecordStateChanged", output_active |-> active,
     output_path |-> path, output_state |-> state]
ReplayStateData(active) ==
    [type |-> "ReplayBufferStateChanged", output_active |-> active,
     output_path |-> NoPath, output_state |-> ""]
ReplayBufferSavedData(path) ==
    [type |-> "ReplayBufferSaved", output_active |-> TRUE,
     output_path |-> path, output_state |-> ""]

\* RecordStatusData / ReplayStatusData as the reply to a status query.
RecordStatusData(rec) ==
    [output_active |-> rec # "OFF", output_paused |-> rec = "PAUSED"]
ReplayStatusData(rep) == [output_active |-> rep]

\* The server refuses a request it cannot serve in its state: the client
\* raises and the handler is left at that call.
ServerAccepts(s, cmd) ==
    CASE cmd = "toggle_record_pause" -> s.rec # "OFF"
      [] cmd = "start_record" -> s.rec = "OFF"
      [] cmd = "stop_record" -> s.rec # "OFF"
      [] cmd = "start_replay_buffer" -> ~s.rep
      [] cmd = "stop_replay_buffer" -> s.rep
      [] cmd = "save_replay_buffer" -> s.rep
      [] OTHER -> TRUE

\* What a served request does to the server, and the push events it emits.
ServerApply(s, cmd) ==
    CASE cmd = "start_record" ->
           [s EXCEPT !.rec = "RECORDING",
                     !.ev = @ \o <<RecordStateData(FALSE, NoPath, STARTING),
                                   RecordStateData(TRUE, NoPath, STARTED)>>]
      [] cmd = "stop_record" ->
           [s EXCEPT !.rec = "OFF", !.files = @ + 1,
                     !.ev = @ \o <<RecordStateData(FALSE, NoPath, STOPPING),
                                   RecordStateData(FALSE, s.files + 1, STOPPED)>>]
      [] cmd = "toggle_record_pause" ->
           IF s.rec = "RECORDING"
           THEN [s EXCEPT !.rec = "PAUSED",
                          !.ev = Append(@, RecordStateData(TRUE, NoPath, PAUSED))]
           ELSE [s EXCEPT !.rec = "RECORDING",
                          !.ev = Append(@, RecordStateData(TRUE, NoPath, RESUMED))]
      [] cmd = "start_replay_buffer" ->
           [s EXCEPT !.rep = TRUE, !.ev = Append(@, ReplayStateData(TRUE))]
      [] cmd = "stop_replay_buffer" ->
           [s EXCEPT !.rep = FALSE, !.ev = Append(@, ReplayStateData(FALSE))]
      [] cmd = "save_replay_buffer" ->
           [s EXCEPT !.files = @ + 1,
                     !.ev = Append(@, ReplayBufferSavedData(s.files + 1))]
      [] OTHER -> s

\* obs_client calls of one handler, in order.  `drop` is the call at which
\* the connection is lost (0: it is not); a call on a lost connection, or a
\* request the server refuses, raises, and nothing after it runs.
RECURSIVE Exec(_, _, _, _)
Exec(s, calls, i, drop) ==
    IF i > Len(calls)
    THEN [srv |-> s, sent |-> calls, answered |-> Len(calls),
          failed |-> FALSE, lost |-> FALSE]
    ELSE IF i = drop
    THEN [srv |-> s, sent |-> SubSeq(calls, 1, i), answered |-> i - 1,
          failed |-> TRUE, lost |-> TRUE]
    ELSE IF ~ServerAccepts(s, calls[i])
    THEN [srv |-> s, sent |-> SubSeq(calls, 1, i), answered |-> i - 1,
          failed |-> TRUE, lost |-> FALSE]
    ELSE Exec(ServerApply(s, calls[i]), calls, i + 1, drop)

Server == [rec |-> srvRec, rep |-> srvRep, files |-> srvFiles, ev |-> <<>>]

Call(calls, drop) == Exec(Server, calls, 1, IF conn THEN drop ELSE 1)

\* The most calls one handler makes (quit_obs_widget: two queries, two stops).
MaxCalls == 4
Drops == 0..MaxCalls

\* ---------------------------------------------------- OBSWidget handlers
\* Mutant: the two ifs swapped, so red overwrites yellow.
SeedRecordColor_ActiveLast(status) ==
    LET afterPaused == IF status.output_paused THEN "yellow" ELSE "grey"
    IN IF status.output_active THEN "red" ELSE afterPaused

\* setup_button_color: the two ifs on the record reply run in order, so a
\* paused reply overwrites red with yellow.
SeedRecordColor(status) ==
    LET afterActive == IF status.output_active THEN "red" ELSE "grey"
    IN IF status.output_paused THEN "yellow" ELSE afterActive

SeedReplayColor(status) == IF status.output_active THEN "green" ELSE "grey"

\* Mutant: the chain tests output_active before output_paused.
PauseColor_ActiveFirst(status, old) ==
    IF status.output_active THEN "red"
    ELSE IF status.output_paused THEN "yellow"
    ELSE "grey"

\* toggle_record_pause: the if / elif / elif on the re-queried status.
PauseColor(status, old) ==
    IF status.output_paused THEN "yellow"
    ELSE IF ~status.output_paused /\ status.output_active THEN "red"
    ELSE IF ~status.output_paused /\ ~status.output_active THEN "grey"
    ELSE old

\* Mutant: a paused recording is taken for one that is not running.
ToggleRecordCalls_PausedStarts(rec) ==
    <<"get_record_status",
      IF rec.output_active /\ ~rec.output_paused
      THEN "stop_record" ELSE "start_record">>

\* The obs_client calls each handler makes, given the status replies.
ToggleRecordCalls(rec) ==
    <<"get_record_status",
      IF rec.output_active THEN "stop_record" ELSE "start_record">>

TogglePauseCalls == <<"toggle_record_pause", "get_record_status">>

ToggleReplayCalls(rep) ==
    <<"get_replay_buffer_status",
      IF rep.output_active THEN "stop_replay_buffer" ELSE "start_replay_buffer">>

\* Mutant: the guard forgets that recording must not be paused.
SaveReplayCalls_NoPauseGuard(rec, rep) ==
    <<"get_record_status", "get_replay_buffer_status">>
    \o (IF rep.output_active THEN <<"save_replay_buffer">> ELSE <<>>)

SaveReplayCalls(rec, rep) ==
    <<"get_record_status", "get_replay_buffer_status">>
    \o (IF rep.output_active /\ ~rec.output_paused
        THEN <<"save_replay_buffer">> ELSE <<>>)

\* Mutant: the replay buffer is stopped before the recording.
QuitCalls_ReplayFirst(rec, rep) ==
    <<"get_replay_buffer_status">>
    \o (IF rep.output_active THEN <<"stop_replay_buffer">> ELSE <<>>)
    \o <<"get_record_status">>
    \o (IF rec.output_active THEN <<"stop_record">> ELSE <<>>)

QuitCalls(rec, rep) ==
    <<"get_record_status">>
    \o (IF rec.output_active THEN <<"stop_record">> ELSE <<>>)
    \o <<"get_replay_buffer_status">>
    \o (IF rep.output_active THEN <<"stop_replay_buffer">> ELSE <<>>)

\* What every button handler leaves behind on the server side, and the
\* record of the request.
Requested(op, r) ==
    /\ srvRec' = r.srv.rec
    /\ srvRep' = r.srv.rep
    /\ srvFiles' = r.srv.files
    /\ events' = events \o r.srv.ev
    /\ conn' = (conn /\ ~r.lost)
    /\ req' = [n |-> req.n + 1, op |-> op, sent |-> r.sent,
               answered |-> r.answered, failed |-> r.failed,
               rec |-> srvRec, rep |-> srvRep]

CanClick == phase = "running" /\ req.n < MaxRequests

setup_button_color(drop) ==
    /\ phase = "start"
    /\ LET r == Call(<<"get_record_status", "get_replay_buffer_status">>, drop)
       IN /\ conn' = (conn /\ ~r.lost)
          /\ IF r.failed
             THEN /\ phase' = "aborted"
                  /\ UNCHANGED <<record_button, replay_button>>
             ELSE /\ phase' = "running"
                  /\ record_button' = SeedRecordColor(RecordStatusData(srvRec))
                  /\ replay_button' = SeedReplayColor(ReplayStatusData(srvRep))
    /\ UNCHANGED <<srvRec, srvRep, srvFiles, events, toasts, req>>
    /\ UNCHANGED <<searchVars, probeVars>>

toggle_record(drop) ==
    /\ CanClick
    /\ Requested("toggle_record",
                 Call(ToggleRecordCalls(RecordStatusData(srvRec)), drop))
    /\ UNCHANGED <<phase, record_button, replay_button, toasts>>
    /\ UNCHANGED <<searchVars, probeVars>>

\* The indicator after toggle_record_pause: set from the re-queried status,
\* untouched when one of the two calls raised.
\* Mutant: the indicator is set from the server state even when a call raised.
PauseButton_SetOnFailure(r, old) == PauseColor(RecordStatusData(r.srv.rec), old)

PauseButton(r, old) ==
    IF r.failed THEN old ELSE PauseColor(RecordStatusData(r.srv.rec), old)

toggle_record_pause(drop) ==
    /\ CanClick
    /\ LET r == Call(TogglePauseCalls, drop)
       IN /\ Requested("toggle_record_pause", r)
          /\ record_button' = PauseButton(r, record_button)
    /\ UNCHANGED <<phase, replay_button, toasts>>
    /\ UNCHANGED <<searchVars, probeVars>>

toggle_replay_buffer(drop) ==
    /\ CanClick
    /\ Requested("toggle_replay_buffer",
                 Call(ToggleReplayCalls(ReplayStatusData(srvRep)), drop))
    /\ UNCHANGED <<phase, record_button, replay_button, toasts>>
    /\ UNCHANGED <<searchVars, probeVars>>

save_replay_buffer(drop) ==
    /\ CanClick
    /\ Requested("save_replay_buffer",
                 Call(SaveReplayCalls(RecordStatusData(srvRec),
                                      ReplayStatusData(srvRep)), drop))
    /\ UNCHANGED <<phase, record_button, replay_button, toasts>>
    /\ UNCHANGED <<searchVars, probeVars>>

\* QApplication.quit() is reached only when no call before it raised.
quit_obs_widget(drop) ==
    /\ CanClick
    /\ LET r == Call(QuitCalls(RecordStatusData(srvRec),
                               ReplayStatusData(srvRep)), drop)
       IN /\ Requested("quit_obs_widget", r)
          /\ phase' = IF r.failed THEN phase ELSE "terminated"
    /\ UNCHANGED <<record_button, replay_button, toasts>>
    /\ UNCHANGED <<searchVars, probeVars>>

\* ------------------------------------------------- push-event callbacks
\* show_toast: one notification emitted.
show_toast(log, message, path) ==
    Append(log, [text |-> message, output_path |-> path])

\* Mutant: STARTING is handled like STARTED.
on_record_state_changed_Starting(data, w) ==
    LET w1 == IF data.output_state = STOPPED /\ data.output_path # NoPath
              THEN [record_button |-> "grey",
                    toasts |-> show_toast(w.toasts, "Recording saved at", data.output_path)]
              ELSE w
    IN IF data.output_state \in {STARTING, STARTED}
       THEN [record_button |-> "red",
             toasts |-> show_toast(w1.toasts, "Recording started", NoPath)]
       ELSE w1

\* Mutant: the two colours are swapped.
on_record_state_changed_Swapped(data, w) ==
    LET w1 == IF data.output_state = STOPPED /\ data.output_path # NoPath
              THEN [record_button |-> "red",
                    toasts |-> show_toast(w.toasts, "Recording saved at", data.output_path)]
              ELSE w
    IN IF data.output_state = STARTED
       THEN [record_button |-> "grey",
             toasts |-> show_toast(w1.toasts, "Recording started", NoPath)]
       ELSE w1

\* on_record_state_changed: two ifs in order, on the widget and the toasts.
on_record_state_changed(data, w) ==
    LET w1 == IF data.output_state = STOPPED /\ data.output_path # NoPath
              THEN [record_button |-> "grey",
                    toasts |-> show_toast(w.toasts, "Recording saved at", data.output_path)]
              ELSE w
    IN IF data.output_state = STARTED
       THEN [record_button |-> "red",
             toasts |-> show_toast(w1.toasts, "Recording started", NoPath)]
       ELSE w1

on_replay_buffer_state_changed(data) ==
    IF data.output_active THEN "green" ELSE "grey"

on_replay_buffer_saved(data, log) ==
    show_toast(log, "Replay buffer saved at", data.output_path)

\* The event client hands the oldest undelivered event to its callback.
HandleEvent ==
    /\ phase = "running"
    /\ events # <<>>
    /\ LET data == Head(events)
           w == on_record_state_changed(
                    data, [record_button |-> record_button, toasts |-> toasts])
       IN /\ events' = Tail(events)
          /\ CASE data.type = "RecordStateChanged" ->
                    /\ record_button' = w.record_button
                    /\ toasts' = w.toasts
                    /\ UNCHANGED replay_button
               [] data.type = "ReplayBufferStateChanged" ->
                    /\ replay_button' = on_replay_buffer_state_changed(data)
                    /\ UNCHANGED <<record_button, toasts>>
               [] data.type = "ReplayBufferSaved" ->
                    /\ toasts' = on_replay_buffer_saved(data, toasts)
                    /\ UNCHANGED <<record_button, replay_button>>
    /\ UNCHANGED <<phase, srvRec, srvRep, srvFiles, conn, req>>
    /\ UNCHANGED <<searchVars, probeVars>>

RecInit ==
    /\ phase = "start"
    /\ srvRec \in {"OFF", "RECORDING", "PAUSED"}
    /\ srvRep \in BOOLEAN
    /\ srvFiles = 0
    /\ conn = TRUE
    /\ events = <<>>
    /\ record_button = "grey"
    /\ replay_button = "grey"
    /\ toasts = <<>>
    /\ req = [n |-> 0, op |-> "none", sent |-> <<>>, answered |-> 0,
              failed |-> FALSE, rec |-> srvRec, rep |-> srvRep]

RecNext ==
    \/ \E drop \in Drops : setup_button_color(drop)
    \/ \E drop \in Drops : toggle_record(drop)
    \/ \E drop \in Drops : toggle_record_pause(drop)
    \/ \E drop \in Drops : toggle_replay_buffer(drop)
    \/ \E drop \in Drops : save_replay_buffer(drop)
    \/ \E drop \in Drops : quit_obs_widget(drop)
    \/ HandleEvent


\* -------------------------------------------------------- window finder
\* Window handles that exist in the model's window system.
MaxWindows == 2
\* Granularity of time, in ms.
TickMs == 150
\* debounce_timer.start(300)
DEBOUNCE_MS == 300

Handles == 1..MaxWindows

\* The windows of the model's window system, by handle: what IsWindowVisible,
\* GetWindowLong(GWL_EXSTYLE), GetParent, GetWindow(GW_OWNER) and
\* GetWindowText return for it.
Window(h) ==
    CASE h % 4 = 1 -> [hwnd |-> h, visible |-> TRUE, ex_style |-> {},
                       parent |-> 0, owner |-> 0, cloaked |-> FALSE,
                       title |-> <<"b", "a">>]
      [] h % 4 = 2 -> [hwnd |-> h, visible |-> TRUE,
                       ex_style |-> {"WS_EX_APPWINDOW"},
                       parent |-> 0, owner |-> 1, cloaked |-> FALSE,
                       title |-> <<"a", "b">>]
      [] h % 4 = 3 -> [hwnd |-> h, visible |-> TRUE, ex_style |-> {},
                       parent |-> 0, owner |-> 0, cloaked |-> FALSE,
                       title |-> <<>>]
      [] OTHER -> [hwnd |-> h, visible |-> TRUE,
                   ex_style |-> {"WS_EX_TOOLWINDOW", "WS_EX_APPWINDOW"},
                   parent |-> 0, owner |-> 0, cloaked |-> FALSE,
                   title |-> <<"a">>]

\* Mutant: the app-window style is tested before the tool-window style.
is_window_in_taskbar_AppFirst(w) ==
    IF ~w.visible THEN FALSE
    ELSE IF "WS_EX_APPWINDOW" \in w.ex_style THEN TRUE
    ELSE IF "WS_EX_TOOLWINDOW" \in w.ex_style THEN FALSE
    ELSE w.parent = 0 /\ w.owner = 0

is_window_in_taskbar(w) ==
    IF ~w.visible THEN FALSE
    ELSE IF "WS_EX_TOOLWINDOW" \in w.ex_style THEN FALSE
    ELSE IF "WS_EX_APPWINDOW" \in w.ex_style THEN TRUE
    ELSE w.parent = 0 /\ w.owner = 0

\* register_window for one handle: the entry appended, if any.
register_window(w) ==
    IF is_window_in_taskbar(w) /\ w.title # <<>>
    THEN <<<<w.hwnd, w.title>>>> ELSE <<>>

\* EnumWindows over the live windows, in handle order.
RECURSIVE EnumWindows(_, _)
EnumWindows(live, h) ==
    IF h > MaxWindows THEN <<>>
    ELSE (IF h \in live THEN register_window(Window(h)) ELSE <<>>)
         \o EnumWindows(live, h + 1)

get_window_list(live) == EnumWindows(live, 1)

\* str.strip() on a text of characters "a", "b" and " ".
RECURSIVE lstrip(_)
lstrip(t) == IF t # <<>> /\ Head(t) = " " THEN lstrip(Tail(t)) ELSE t
RECURSIVE rstrip(_)
rstrip(t) ==
    IF t # <<>> /\ t[Len(t)] = " " THEN rstrip(SubSeq(t, 1, Len(t) - 1)) ELSE t
strip(t) == rstrip(lstrip(t))

\* fuzzyfinder: the pattern c1.*?c2.*?...cn as a lookahead at every start;
\* MatchEnd is where the lazy match of q[qi..] ends when scanning from ti
\* (0: no match).
RECURSIVE MatchEnd(_, _, _, _)
MatchEnd(q, t, qi, ti) ==
    IF qi > Len(q) THEN ti - 1
    ELSE IF ti > Len(t) THEN 0
    ELSE IF t[ti] = q[qi] THEN MatchEnd(q, t, qi + 1, ti + 1)
    ELSE MatchEnd(q, t, qi, ti + 1)

MatchStarts(q, t) ==
    {i \in 1..Len(t) : t[i] = q[1] /\ MatchEnd(q, t, 2, i + 1) # 0}

MatchLen(q, t, i) == MatchEnd(q, t, 2, i + 1) - i + 1

\* The shortest match, the leftmost among the shortest: <<length, start>>.
BestMatch(q, t) ==
    LET starts == MatchStarts(q, t)
        i == CHOOSE j \in starts : \A k \in starts :
                 \/ MatchLen(q, t, j) < MatchLen(q, t, k)
                 \/ MatchLen(q, t, j) = MatchLen(q, t, k) /\ j <= k
    IN <<MatchLen(q, t, i), i - 1>>

CharOrd(c) == CASE c = " " -> 32 [] c = "a" -> 97 [] c = "b" -> 98 [] OTHER -> 122

RECURSIVE StrLess(_, _)
StrLess(a, b) ==
    IF b = <<>> THEN FALSE
    ELSE IF a = <<>> THEN TRUE
    ELSE IF CharOrd(Head(a)) # CharOrd(Head(b))
         THEN CharOrd(Head(a)) < CharOrd(Head(b))
    ELSE StrLess(Tail(a), Tail(b))

\* Order of the tuples (len, start, title, item) that sorted() compares.
SuggestionLess(q, x, y) ==
    LET bx == BestMatch(q, x[2])
        by == BestMatch(q, y[2])
    IN \/ bx[1] < by[1]
       \/ bx[1] = by[1] /\ bx[2] < by[2]
       \/ bx = by /\ StrLess(x[2], y[2])
       \/ bx = by /\ x[2] = y[2] /\ x[1] < y[1]

RECURSIVE SortSuggestions(_, _)
SortSuggestions(q, items) ==
    IF items = {} THEN <<>>
    ELSE LET m == CHOOSE x \in items :
                      \A y \in items \ {x} : SuggestionLess(q, x, y)
         IN <<m>> \o SortSuggestions(q, items \ {m})

fuzzyfinder(q, collection) ==
    SortSuggestions(q, {collection[i] : i \in
        {j \in 1..Len(collection) : MatchStarts(q, collection[j][2]) # {}}})

\* Mutant: the empty query is ranked like any other; every title matches it
\* with length 0 at start 0, so the snapshot comes back sorted by title.
RECURSIVE SortedByTitle(_)
SortedByTitle(items) ==
    IF items = {} THEN <<>>
    ELSE LET m == CHOOSE x \in items : \A y \in items \ {x} :
                      \/ StrLess(x[2], y[2])
                      \/ x[2] = y[2] /\ x[1] < y[1]
         IN <<m>> \o SortedByTitle(items \ {m})

filter_list_AlwaysRanked(txt, titles) ==
    LET stripped == strip(txt)
    IN IF stripped # <<>> THEN fuzzyfinder(stripped, titles)
       ELSE SortedByTitle({titles[i] : i \in 1..Len(titles)})

\* filter_list: the value assigned to filtered_list.
filter_list(txt, titles) ==
    LET stripped == strip(txt)
    IN IF stripped # <<>> THEN fuzzyfinder(stripped, titles) ELSE titles

\* show_title_list: the rows added to the cleared window_list.
show_title_list(filtered) == [i \in 1..Len(filtered) |-> filtered[i][2]]

\* Mutant: a timer that is already running is left to run out.
on_text_changed_NoRestart(left) == IF left > 0 THEN left ELSE DEBOUNCE_MS

\* on_text_changed: debounce_timer.start(300) restarts the timer whatever it
\* was doing; the new time left.
on_text_changed(left) == DEBOUNCE_MS

\* Texts the user may leave in the search bar.
Texts == {<<>>, <<" ", "a">>, <<"a", "b">>, <<"b", "b">>}

\* ------------------------------------------------ StatusWindow handlers
\* A textChanged signal: the timer is restarted.
TextChanged ==
    /\ timer' = on_text_changed(timer)
    /\ sinceEdit' = 0
    /\ passes' = 0

\* hide_me: window_list.clear(); hide().  The timer and filtered_list stay.
hide_me ==
    /\ window_list' = <<>>
    /\ currentRow' = -1
    /\ visible' = FALSE

\* The user edits the query (possible only while the overlay has the focus).
Edit(q) ==
    /\ visible
    /\ q # text
    /\ text' = q
    /\ TextChanged
    /\ UNCHANGED <<desktop, title_list, filtered_list, fresh, window_list,
                   currentRow, visible, hkPc, passQuery, sel>>
    /\ UNCHANGED <<recVars, probeVars>>

\* Time passes: TickMs, or what is left on the timer when that is less.  A
\* timer that is due fires before more time passes.
Elapse == IF timer > 0 /\ timer < TickMs THEN timer ELSE TickMs

Tick ==
    /\ timer # 0
    /\ timer > 0 \/ (sinceEdit >= 0 /\ sinceEdit <= DEBOUNCE_MS)
    /\ timer' = IF timer > 0 THEN timer - Elapse ELSE timer
    /\ sinceEdit' = IF sinceEdit < 0 \/ sinceEdit > DEBOUNCE_MS THEN sinceEdit
                    ELSE sinceEdit + Elapse
    /\ UNCHANGED <<desktop, title_list, filtered_list, fresh, window_list,
                   currentRow, visible, text, hkPc, passes, passQuery, sel>>
    /\ UNCHANGED <<recVars, probeVars>>

\* debounce_timer.timeout -> handle_search: filter_list(); show_title_list().
handle_search ==
    /\ timer = 0
    /\ timer' = -1
    /\ filtered_list' = filter_list(text, title_list)
    /\ fresh' = TRUE
    /\ window_list' = show_title_list(filtered_list')
    /\ currentRow' = -1
    /\ passes' = IF passes < 2 THEN passes + 1 ELSE passes
    /\ passQuery' = strip(text)
    /\ UNCHANGED <<desktop, title_list, visible, text, hkPc, sinceEdit, sel>>
    /\ UNCHANGED <<recVars, probeVars>>

\* Escape, or the exit button of the overlay.
Escape ==
    /\ visible
    /\ hide_me
    /\ UNCHANGED <<desktop, title_list, filtered_list, fresh, text, timer,
                   hkPc, sinceEdit, passes, passQuery, sel>>
    /\ UNCHANGED <<recVars, probeVars>>

\* select_item: the row it indexes filtered_list with.
SelectRow(row) == IF row < 0 THEN 0 ELSE row

\* focus_hwnd: SetForegroundWindow raises for a handle whose window is gone;
\* TRUE when it returned.
focus_hwnd(hwnd) == hwnd \in desktop

\* select_item with window_list.currentRow() = row.
select_item(row) ==
    LET r == SelectRow(row)
    IN IF r >= Len(filtered_list)
       THEN \* filtered_list[row] raises IndexError
            /\ sel' = [flip |-> ~sel.flip, row |-> r, raised |-> "IndexError",
                       hwnd |-> 0]
            /\ UNCHANGED <<window_list, visible>>
            /\ currentRow' = row
       ELSE LET hwnd == filtered_list[r + 1][1]
            IN IF focus_hwnd(hwnd)
               THEN /\ sel' = [flip |-> ~sel.flip, row |-> r,
                               raised |-> "none", hwnd |-> hwnd]
                    /\ hide_me
               ELSE \* focus_hwnd raised: hide_me is not reached
                    /\ sel' = [flip |-> ~sel.flip, row |-> r,
                               raised |-> "focus_hwnd", hwnd |-> hwnd]
                    /\ UNCHANGED <<window_list, visible>>
                    /\ currentRow' = row

\* The Return key.
PressReturn ==
    /\ visible
    /\ select_item(currentRow)
    /\ UNCHANGED <<desktop, title_list, filtered_list, fresh, text, timer,
                   hkPc, sinceEdit, passes, passQuery>>
    /\ UNCHANGED <<recVars, probeVars>>

\* itemClicked on row `row` of window_list (the click makes it current).
ClickItem(row) ==
    /\ visible
    /\ row \in 0..(Len(window_list) - 1)
    /\ select_item(row)
    /\ UNCHANGED <<desktop, title_list, filtered_list, fresh, text, timer,
                   hkPc, sinceEdit, passes, passQuery>>
    /\ UNCHANGED <<recVars, probeVars>>

\* ----------------------------------------- toggle_fuzzy_window (hotkey)
\* The hotkey library invokes the callback while the Qt thread is inside
\* app.exec(): its statements interleave with the Qt handlers above.
\* status_widget.set_title_list()
HotkeySetTitleList ==
    /\ hkPc = "idle"
    /\ title_list' = get_window_list(desktop)
    /\ fresh' = FALSE
    /\ hkPc' = "activate"
    /\ UNCHANGED <<desktop, filtered_list, window_list, currentRow, visible,
                   text, timer, sinceEdit, passes, passQuery, sel>>
    /\ UNCHANGED <<recVars, probeVars>>

\* status_widget.activate(): show(); search_bar.clear() (a textChanged when
\* the text was not empty).
HotkeyActivate ==
    /\ hkPc = "activate"
    /\ visible' = TRUE
    /\ text' = <<>>
    /\ IF text # <<>> THEN TextChanged
       ELSE UNCHANGED <<timer, sinceEdit, passes>>
    /\ hkPc' = "filter_list"
    /\ UNCHANGED <<desktop, title_list, filtered_list, fresh, window_list,
                   currentRow, passQuery, sel>>
    /\ UNCHANGED <<recVars, probeVars>>

\* status_widget.filter_list()
HotkeyFilterList ==
    /\ hkPc = "filter_list"
    /\ filtered_list' = filter_list(text, title_list)
    /\ fresh' = TRUE
    /\ hkPc' = "show_title_list"
    /\ UNCHANGED <<desktop, title_list, window_list, currentRow, visible,
                   text, timer, sinceEdit, passes, passQuery, sel>>
    /\ UNCHANGED <<recVars, probeVars>>

\* status_widget.show_title_list()
HotkeyShowTitleList ==
    /\ hkPc = "show_title_list"
    /\ window_list' = show_title_list(filtered_list)
    /\ currentRow' = -1
    /\ hkPc' = "idle"
    /\ UNCHANGED <<desktop, title_list, filtered_list, fresh, visible, text,
                   timer, sinceEdit, passes, passQuery, sel>>
    /\ UNCHANGED <<recVars, probeVars>>

\* ------------------------------------------------------- window system
OpenWindow(h) ==
    /\ h \notin desktop
    /\ desktop' = desktop \cup {h}
    /\ UNCHANGED <<title_list, filtered_list, fresh, window_list, currentRow,
                   visible, text, timer, hkPc, sinceEdit, passes, passQuery, sel>>
    /\ UNCHANGED <<recVars, probeVars>>

CloseWindow(h) ==
    /\ h \in desktop
    /\ desktop' = desktop \ {h}
    /\ UNCHANGED <<title_list, filtered_list, fresh, window_list, currentRow,
                   visible, text, timer, hkPc, sinceEdit, passes, passQuery, sel>>
    /\ UNCHANGED <<recVars, probeVars>>

\* StatusWindow after main(): shown and hidden once, class-level empty lists.
SearchInit ==
    /\ desktop = Handles
    /\ title_list = <<>>
    /\ filtered_list = <<>>
    /\ fresh = TRUE
    /\ window_list = <<>>
    /\ currentRow = -1
    /\ visible = FALSE
    /\ text = <<>>
    /\ timer = -1
    /\ hkPc = "idle"
    /\ sinceEdit = -1
    /\ passes = 0
    /\ passQuery = <<>>
    /\ sel = [flip |-> FALSE, row |-> 0, raised |-> "none", hwnd |-> 0]

SearchNext ==
    \/ \E q \in Texts : Edit(q)
    \/ Tick
    \/ handle_search
    \/ Escape
    \/ PressReturn
    \/ \E row \in 0..(MaxWindows - 1) : ClickItem(row)
    \/ HotkeySetTitleList
    \/ HotkeyActivate
    \/ HotkeyFilterList
    \/ HotkeyShowTitleList
    \/ \E h \in Handles : OpenWindow(h)
    \/ \E h \in Handles : CloseWindow(h)

\* ------------------------------------------- get_window_list, one window
\* Every window the window system can hand to register_window: each value
\* of IsWindowVisible, the two extended styles, GetParent, GetWindow(GW_OWNER),
\* the cloaked attribute and an empty or non-empty GetWindowText.
ProbeWindows ==
    [hwnd : {MaxWindows + 1}, visible : BOOLEAN,
     ex_style : SUBSET {"WS_EX_TOOLWINDOW", "WS_EX_APPWINDOW"},
     parent : {0, 1}, owner : {0, 1}, cloaked : BOOLEAN,
     title : {<<>>, <<"a">>}]

\* get_window_list() with probe the only window EnumWindows visits.
EnumerateProbe ==
    /\ ~enumerated
    /\ enumerated' = TRUE
    /\ hwnd_list' = register_window(probe)
    /\ UNCHANGED <<probe, recVars, searchVars>>

\* The window system changes the window (or replaces it by another).
ProbeChanges(w) ==
    /\ enumerated
    /\ probe' = w
    /\ enumerated' = FALSE
    /\ UNCHANGED <<hwnd_list, recVars, searchVars>>

ProbeInit ==
    /\ probe = Window(1)
    /\ enumerated = FALSE
    /\ hwnd_list = <<>>

ProbeNext ==
    \/ EnumerateProbe
    \/ \E w \in ProbeWindows : ProbeChanges(w)

\* ------------------------------------------------------- specifications
Init == RecInit /\ SearchInit /\ ProbeInit

Next == RecNext \/ SearchNext \/ ProbeNext

Spec == Init /\ [][Next]_vars

\* The record machine alone (the window finder stays as constructed).
SpecRecord == Init /\ [][RecNext]_vars

\* SpecRecord with the scheduling the event client guarantees: a push event
\* that has arrived is handed to its callback.  Clicks are the user's choice
\* and carry no fairness.
SpecRecordFair == SpecRecord /\ WF_vars(HandleEvent)

\* The window finder alone (the record machine stays as constructed, with an
\* idle server).
InitSearch == Init /\ srvRec = "OFF" /\ ~srvRep

SpecSearch == InitSearch /\ [][SearchNext]_vars

\* The runs of SpecSearch in which no Qt handler runs between the first and
\* the last statement of the hotkey callback.
QtHandler ==
    \/ \E q \in Texts : Edit(q)
    \/ handle_search
    \/ Escape
    \/ PressReturn
    \/ \E row \in 0..(MaxWindows - 1) : ClickItem(row)

SearchNextSerial ==
    \/ hkPc = "idle" /\ QtHandler
    \/ Tick
    \/ HotkeySetTitleList
    \/ HotkeyActivate
    \/ HotkeyFilterList
    \/ HotkeyShowTitleList
    \/ \E h \in Handles : OpenWindow(h)
    \/ \E h \in Handles : CloseWindow(h)

SpecSearchSerial == InitSearch /\ [][SearchNextSerial]_vars

\* get_window_list alone, over every window of ProbeWindows.
InitTaskbar ==
    /\ RecInit /\ srvRec = "OFF" /\ ~srvRep
    /\ SearchInit
    /\ probe \in ProbeWindows
    /\ enumerated = FALSE
    /\ hwnd_list = <<>>

SpecTaskbar == InitTaskbar /\ [][ProbeNext]_vars

\* =============================================================== claims
IsQuery(cmd) == cmd \in {"get_record_status", "get_replay_buffer_status"}

\* The commands among the calls a handler issued.
Commands(sent) == SelectSeq(sent, LAMBDA c : ~IsQuery(c))

Issued(cmd) == \E i \in 1..Len(req.sent) : req.sent[i] = cmd

\* C1: save_replay_buffer() issues the save-replay command if and only if
\* the two status queries it makes report the replay buffer active and the
\* recording not paused; in the other three combinations, and when a status
\* query got no reply, it issues no command at all.
C1_SaveReplayGuard ==
    req.op = "save_replay_buffer" =>
        /\ Issued("save_replay_buffer") <=>
               (req.answered >= 2 /\ req.rep /\ req.rec # "PAUSED")
        /\ Commands(req.sent) \in {<<>>, <<"save_replay_buffer">>}

C1_Witness ==
    /\ req.op = "save_replay_buffer"
    /\ req.rep /\ req.rec = "RECORDING"
    /\ Issued("save_replay_buffer")
    /\ ~req.failed

\* The stop commands quit has to send for a server state, in order.
StopsDue(rec, rep) ==
    (IF rec # "OFF" THEN <<"stop_record">> ELSE <<>>)
    \o (IF rep THEN <<"stop_replay_buffer">> ELSE <<>>)

\* C2: a quit request whose calls all returned has sent stop-record if
\* recording was active and stop-replay if replay was active, stop-record
\* first, and only then asked the application to terminate; the application
\* is never terminated with a stop command due and unsent or unanswered.
C2_QuitOrdering ==
    /\ (req.op = "quit_obs_widget" /\ ~req.failed) =>
           (phase = "terminated" /\ Commands(req.sent) = StopsDue(req.rec, req.rep))
    /\ phase = "terminated" =>
           /\ req.op = "quit_obs_widget"
           /\ req.answered = Len(req.sent)
           /\ Commands(req.sent) = StopsDue(req.rec, req.rep)

C2_Witness ==
    /\ phase = "terminated"
    /\ req.rec # "OFF" /\ req.rep
    /\ Commands(req.sent) = <<"stop_record", "stop_replay_buffer">>

ToastsWith(log, path) == {i \in 1..Len(log) : log[i].output_path = path}

\* The event client has handed the oldest pending event to its callback.
Delivered == events # <<>> /\ events' = Tail(events)

\* C3: toggle_record() with the server at OFF sends start-record and leaves
\* the indicator alone; handling a RecordTransitionEvent STARTED leaves the
\* indicator at RECORDING (red); handling STOPPED with a present output_path
\* leaves it at OFF (grey) with exactly one notification emitted that
\* contains that path.
C3_RecordReconciliation ==
    [][/\ (req'.n # req.n /\ req'.op = "toggle_record" /\ req'.rec = "OFF"
               /\ ~req'.failed) =>
              /\ Commands(req'.sent) = <<"start_record">>
              /\ record_button' = record_button
              /\ \E i \in 1..Len(events') : events'[i].output_state = STARTED
       /\ (Delivered /\ Head(events).type = "RecordStateChanged") =>
              LET data == Head(events)
              IN /\ data.output_state = STARTED => record_button' = "red"
                 /\ (data.output_state = STOPPED /\ data.output_path # NoPath) =>
                        /\ record_button' = "grey"
                        /\ Cardinality(ToastsWith(toasts', data.output_path)) = 1
      ]_vars

C3_Witness ==
    /\ req.op = "toggle_record"
    /\ Len(toasts) = 2
    /\ toasts[1].text = "Recording started"
    /\ toasts[2].text = "Recording saved at"
    /\ toasts[2].output_path = 1
    /\ record_button = "grey"
    /\ events = <<>>

RecordColor(rec) ==
    CASE rec = "OFF" -> "grey" [] rec = "RECORDING" -> "red" [] OTHER -> "yellow"

ReplayColor(rep) == IF rep THEN "green" ELSE "grey"

\* No push event is pending and no handler is running.
Quiescent == phase = "running" /\ events = <<>>

\* C4: in every quiescent state (no push event pending) of a run in which
\* no request failed, the record indicator shows the server's recording
\* state and the replay indicator the server's replay state, also after a
\* command raced with an undelivered push event.
C4_IndicatorsMatchServer ==
    (Quiescent /\ conn) =>
        /\ record_button = RecordColor(srvRec)
        /\ replay_button = ReplayColor(srvRep)

NoRepeat(sent) == \A i, j \in 1..Len(sent) : sent[i] = sent[j] => i = j

\* C9: a button handler in which a command or status query fails leaves both
\* indicators as they were, emits nothing, leaves the application running,
\* and has sent no call twice: the failed call is the last one it made.
C9_FailureKeepsIndicators ==
    [][(req'.n # req.n /\ req'.failed) =>
           /\ record_button' = record_button
           /\ replay_button' = replay_button
           /\ toasts' = toasts
           /\ phase' = "running"
           /\ NoRepeat(req'.sent)
           /\ Len(req'.sent) = req'.answered + 1
      ]_vars

C9_Witness ==
    /\ req.op = "toggle_record_pause"
    /\ req.failed
    /\ req.answered = 1
    /\ srvRec = "PAUSED"
    /\ record_button = "red"

\* C5: debounce.  After the last edit of a burst the debounce timer runs
\* handle_search exactly once: never sooner than DEBOUNCE_MS after that edit
\* (so never between two edits less than DEBOUNCE_MS apart), always once
\* DEBOUNCE_MS have passed without an edit, and with the text of that last
\* edit.
C5_DebounceCoalesces ==
    /\ passes <= 1
    /\ passes = 1 => (sinceEdit >= DEBOUNCE_MS /\ passQuery = strip(text))
    /\ sinceEdit > DEBOUNCE_MS => passes = 1

C5_Witness ==
    /\ visible
    /\ passes = 1
    /\ text = <<" ", "a">>
    /\ passQuery = <<"a">>
    /\ Len(filtered_list) = 2

\* C6: select_item, whatever the result list and the current row, resolves
\* an entry of the result list (index 0 when there is no current row) and
\* does not raise.  Stated for selections made while no hotkey callback is
\* running.
C6_SelectNeverRaises ==
    [][(sel' # sel /\ hkPc = "idle") => sel'.raised # "IndexError"]_vars

\* C7: a select_item that resolved a handle ends with the overlay hidden
\* and the displayed list cleared, whether or not the focus request on the
\* handle succeeded.
C7_SelectAlwaysCloses ==
    [][(sel' # sel /\ hkPc = "idle" /\ sel'.raised # "IndexError") =>
           (~visible' /\ window_list' = <<>>)]_vars

\* C8: whenever the overlay is shown, the result list it selects from was
\* computed from the snapshot of the most recent set_title_list().
C8_NoStaleResult == visible => fresh

\* A Qt handler that reads the snapshot or the result list has run.
QtHandlerRan == sel' # sel \/ (timer = 0 /\ timer' = -1)

\* C10: the transitions are serialized: no Qt handler of the window finder
\* runs while the hotkey callback has run some of its statements and not
\* yet all of them.
C10_Serialized == [][QtHandlerRan => hkPc = "idle"]_vars

\* C11: the window snapshot never contains a cloaked window, even a visible
\* one with the app-window style, and never a window with an empty title.
C11_NoCloakedNoUntitled ==
    enumerated =>
        \A i \in 1..Len(hwnd_list) :
            /\ hwnd_list[i][2] # <<>>
            /\ hwnd_list[i][1] = probe.hwnd => ~probe.cloaked

\* A filter pass: handle_search on a timer fire, or the filter_list() call of
\* the hotkey callback.
FilterPass ==
    \/ timer = 0 /\ timer' = -1
    \/ hkPc = "filter_list" /\ hkPc' = "show_title_list"

\* C12: filtering any snapshot with the empty query returns the snapshot
\* itself, the same entries in enumeration order, nothing removed or reordered.
C12_EmptyQueryIdentity ==
    [][FilterPass /\ text = <<>> => filtered_list' = title_list]_vars

\* A timer-driven pass with the empty query has returned a two-entry snapshot
\* whose enumeration order is not the ranking order.
C12_Witness ==
    /\ passes >= 1 /\ passQuery = <<>> /\ text = <<>>
    /\ Len(title_list) = 2
    /\ filtered_list = title_list
    /\ StrLess(title_list[2][2], title_list[1][2])

\* C13: a toggle_record() whose status query was answered sends start-record
\* when recording is OFF and stop-record when it is RECORDING or PAUSED,
\* exactly one of the two, and leaves the record indicator alone; once the
\* indicators are seeded the record indicator changes only when a push event
\* is handled or in the re-query of toggle_record_pause().
C13_ToggleRecordCommand ==
    [][/\ (req'.n # req.n /\ req'.op = "toggle_record") =>
              /\ record_button' = record_button
              /\ req'.answered >= 1 =>
                     Commands(req'.sent) =
                         IF req'.rec = "OFF" THEN <<"start_record">>
                         ELSE <<"stop_record">>
       /\ (phase = "running" /\ record_button' # record_button) =>
              \/ Delivered
              \/ req'.n # req.n /\ req'.op = "toggle_record_pause"
      ]_vars

\* toggle_record() on a paused recording has sent stop-record, and the
\* indicator still shows PAUSED while the push events are pending.
C13_Witness ==
    /\ req.op = "toggle_record"
    /\ req.rec = "PAUSED"
    /\ ~req.failed
    /\ Commands(req.sent) = <<"stop_record">>
    /\ srvRec = "OFF"
    /\ record_button = "yellow"
    /\ events # <<>>

\* Every reply a record status query can carry, and every indicator colour.
StatusReplies == [output_active : BOOLEAN, output_paused : BOOLEAN]
Colors == {"grey", "red", "yellow", "green"}

\* The colour the claims give a record status reply: PAUSED when paused,
\* otherwise RECORDING when active, otherwise OFF.
ReplyColor(status) ==
    IF status.output_paused THEN "yellow"
    ELSE IF status.output_active THEN "red" ELSE "grey"

\* C14: toggle_record_pause() sends the pause-toggle command first, then
\* re-queries the record status, and sets the record indicator from that
\* reply alone: yellow when paused, red when not paused and active, grey when
\* neither; one of the three applies for every reply, whatever the indicator
\* showed before.
C14_PauseRequery ==
    [][/\ (req'.n # req.n /\ req'.op = "toggle_record_pause") =>
              /\ req'.sent[1] = "toggle_record_pause"
              /\ ~req'.failed =>
                     /\ req'.sent = <<"toggle_record_pause", "get_record_status">>
                     /\ record_button' = RecordColor(srvRec')
                     /\ replay_button' = replay_button
       /\ \A status \in StatusReplies, old \in Colors :
              PauseColor(status, old) = ReplyColor(status)
      ]_vars

\* A paused recording was resumed by toggle_record_pause(): the indicator
\* went from yellow to red in the handler, before the RESUMED event.
C14_Witness ==
    /\ req.op = "toggle_record_pause"
    /\ ~req.failed
    /\ req.rec = "PAUSED"
    /\ srvRec = "RECORDING"
    /\ record_button = "red"
    /\ events # <<>>
    /\ events[Len(events)].output_state = RESUMED

\* C15: after startup seeding from the two status queries the record
\* indicator is yellow if the reply says paused, otherwise red if it says
\* active, otherwise grey, and the replay indicator is green exactly when the
\* replay reply says active; a paused reply never leaves red or grey.
C15_StartupSeeding ==
    /\ (phase = "running" /\ req.n = 0) =>
           /\ record_button = RecordColor(srvRec)
           /\ replay_button = ReplayColor(srvRep)
    /\ \A status \in StatusReplies :
           /\ SeedRecordColor(status) = ReplyColor(status)
           /\ status.output_paused => SeedRecordColor(status) \notin {"red", "grey"}
    /\ \A active \in BOOLEAN :
           SeedReplayColor([output_active |-> active]) = "green" <=> active

\* Seeded from a paused recording and an active replay buffer, nothing
\* requested yet.
C15_Witness ==
    /\ phase = "running"
    /\ req.n = 0
    /\ srvRec = "PAUSED" /\ srvRep
    /\ record_button = "yellow"
    /\ replay_button = "green"

\* The record events the claims call no-ops.
NoOpEvent(data) ==
    \/ data.output_state \in {STARTING, STOPPING, PAUSED, RESUMED}
    \/ data.output_state = STOPPED /\ data.output_path = NoPath

\* Every RecordStateData a push event can carry, and the widget state the
\* handler acts on.
RecordEvents ==
    {RecordStateData(active, path, state) :
        active \in BOOLEAN, path \in {NoPath, 1},
        state \in {STARTING, STARTED, STOPPING, STOPPED, PAUSED, RESUMED}}
WidgetStates ==
    [record_button : Colors,
     toasts : {<<>>, <<[text |-> "Recording started", output_path |-> NoPath]>>}]

\* C16: a record event whose state is STARTING, STOPPING, PAUSED or RESUMED,
\* or STOPPED without an output_path, is a no-op: handling it changes neither
\* indicator, emits no notification and leaves the application running.
C16_NoOpRecordEvents ==
    [][/\ (Delivered /\ Head(events).type = "RecordStateChanged"
               /\ NoOpEvent(Head(events))) =>
              /\ record_button' = record_button
              /\ replay_button' = replay_button
              /\ toasts' = toasts
              /\ phase' = "running"
       /\ \A data \in RecordEvents, w \in WidgetStates :
              NoOpEvent(data) => on_record_state_changed(data, w) = w
      ]_vars

\* The STARTING event of a start-record was handled and STARTED is still
\* pending: nothing has changed yet.
C16_Witness ==
    /\ req.op = "toggle_record"
    /\ req.rec = "OFF"
    /\ ~req.failed
    /\ Len(events) = 1
    /\ events[1].output_state = STARTED
    /\ record_button = "grey"
    /\ toasts = <<>>

\* The hotkey callback returns: activate() as the claims use the word.
ActivateCompletes == hkPc = "show_title_list" /\ hkPc' = "idle"

\* C17: when activate() completes, whatever text and timer the previous
\* activation left behind, the query is empty, the result list is the freshly
\* enumerated snapshot in enumeration order, and no debounce timer is pending
\* (so no filter pass runs until the user edits the query: only a timer fire
\* runs one).
C17_ActivateSettles ==
    [][ActivateCompletes =>
           /\ text' = <<>>
           /\ filtered_list' = title_list'
           /\ timer' = -1
      ]_vars

\* The debounce timer fires: handle_search runs.
TimerFires == timer = 0 /\ timer' = -1

\* C18: hiding the overlay, from any sub-state, leaves it hidden with the
\* displayed result list cleared, and the list stays cleared for as long as
\* the overlay is hidden: a timer fire while it is hidden runs no filter pass
\* and does not repopulate the list.
C18_HiddenStaysCleared ==
    [][/\ ~visible' => window_list' = <<>>
       /\ (~visible /\ TimerFires) =>
              /\ filtered_list' = filtered_list
              /\ window_list' = window_list
      ]_vars

\* The enumerated window is in the snapshot.
Listed == \E i \in 1..Len(hwnd_list) : hwnd_list[i][1] = probe.hwnd

\* A visible, non-cloaked window with a non-empty title.
Presentable(w) == w.visible /\ ~w.cloaked /\ w.title # <<>>

\* C19 as stated: a visible, non-cloaked, titled window with the app-window
\* style is included whatever its parent and owner, also when it carries the
\* tool-window flag; a window without the app-window style is included only
\* if it is not a tool window and has neither a parent nor an owner.
C19_AppWindowAlwaysIncluded ==
    enumerated =>
        /\ (Presentable(probe) /\ "WS_EX_APPWINDOW" \in probe.ex_style) => Listed
        /\ (Listed /\ "WS_EX_APPWINDOW" \notin probe.ex_style) =>
               /\ "WS_EX_TOOLWINDOW" \notin probe.ex_style
               /\ probe.parent = 0 /\ probe.owner = 0

\* C19 amended: a visible, non-cloaked, titled window with the app-window
\* style and without the tool-window flag is included whatever its parent and
\* owner; a window with the tool-window flag is never included, also when it
\* carries the app-window style; a window without the app-window style is
\* included only if it is not a tool window and has neither a parent nor an
\* owner.
C19_ToolWindowExcludedFirst ==
    enumerated =>
        /\ (Presentable(probe) /\ "WS_EX_APPWINDOW" \in probe.ex_style
                /\ "WS_EX_TOOLWINDOW" \notin probe.ex_style) => Listed
        /\ "WS_EX_TOOLWINDOW" \in probe.ex_style => ~Listed
        /\ (Listed /\ "WS_EX_APPWINDOW" \notin probe.ex_style) =>
               /\ "WS_EX_TOOLWINDOW" \notin probe.ex_style
               /\ probe.parent = 0 /\ probe.owner = 0

\* An app-window with both a parent and an owner was enumerated and listed.
C19_Witness ==
    /\ enumerated
    /\ Presentable(probe)
    /\ probe.ex_style = {"WS_EX_APPWINDOW"}
    /\ probe.parent # 0 /\ probe.owner # 0
    /\ Listed

\* C20: whenever the overlay is visible the rows it displays are exactly the
\* labels of the stored filtered list, same order and same length, so the row
\* selected is the row of the entry select_item focuses.
C20_RowsAreFilteredLabels ==
    visible =>
        /\ Len(window_list) = Len(filtered_list)
        /\ \A i \in 1..Len(window_list) : window_list[i] = filtered_list[i][2]

\* C21: every quit request eventually leads to application termination, for
\* every combination of recording and replay state and whether the status
\* queries and stop commands of quit_obs_widget succeed or fail.
C21_QuitTerminates ==
    (req.op = "quit_obs_widget") ~> (phase = "terminated")

====
